---- MODULE Spec2Model ----
(***************************************************************************)
(* Connection layer of the GSM AT library (src/src/gsm/gsm_conn.c): the    *)
(* write buffer of a connection (gsm_conn_write, flush_buff, conn_send),   *)
(* gsm_conn_close / gsm_conn_send / gsm_conn_sendto / gsm_conn_start, the  *)
(* producer queue they feed and the executor that consumes it.             *)
(*                                                                         *)
(* One connection slot is modelled.  Bytes handed to the library are       *)
(* numbered 1, 2, 3, ... in the order the application hands them over; a   *)
(* piece of data is a sequence of runs [at |-> a, n |-> k] standing for    *)
(* the bytes a, a+1, ..., a+k-1, kept normalised (adjacent runs merged),   *)
(* so two pieces of data are equal exactly when they hold the same bytes   *)
(* in the same order.                                                      *)
(***************************************************************************)
EXTENDS Integers, Sequences, FiniteSets, TLC

VARIABLES
    conn,       \* the connection slot: status flags, val_id, buff.buff/len/ptr
    heap,       \* every buffer gsm_mem_alloc ever returned: times freed, content
    queue,      \* the producer mailbox: commands accepted and not yet executed
    submitted,  \* history: every command ever accepted by the producer mailbox
    applied,    \* history: the last command the executor took, with what it did
    gen,        \* history: number of the logical connection occupying the slot
    faults,     \* history: failed allocations and rejected dispatches so far
    written,    \* history: bytes handed to gsm_conn_write / gsm_conn_send so far
    calls,      \* history: API calls started so far
    last,       \* history: the last completed gsm_conn_write call
    pc,         \* per application context: where it is inside its API call
    loc,        \* per application context: the locals of that call
    cfg,        \* fixed in a behaviour: mailbox capacity, calls and starts explored
    timers,     \* the pending poll timers of the slot, each with the logical
                \* connection it was first armed for (history)
    polls,      \* history: poll events emitted so far and the last timer firing
    lk          \* the core lock and, per context, the lock-level events its
                \* current call still has to perform (SpecLock)

vars == <<conn, heap, queue, submitted, applied, gen, faults, written, calls, last, pc, loc, cfg, timers, polls, lk>>

(***************************************************************************)
(* Program constants.                                                      *)
(***************************************************************************)
\* Capacity of a write buffer and size of a full chunk (1460 in the spec's scenarios).
GSM_CFG_CONN_MAX_DATA_LEN == 1460

\* val_id is a uint8_t: it counts modulo 2^8.
VAL_ID_MOD == 256

(***************************************************************************)
(* Bounds of the model.                                                    *)
(***************************************************************************)
\* gsm_conn_write calls in one behaviour of SpecWrite.
MaxWrites == 3
\* Failed allocations and rejected dispatches in one behaviour.
MaxFaults == 1
\* Capacity of the producer mailbox in Spec, SpecWrite, SpecClose and SpecRace.
MaxQueue == 4
\* API calls started in one behaviour of Spec, SpecClose and SpecRace.
MaxCalls == 3
\* gsm_conn_start calls in one behaviour of Spec, SpecClose and SpecRace.
MaxStarts == 1
\* Poll events emitted in one behaviour.
MaxPolls == 2

\* Lengths the application passes to gsm_conn_write in SpecWrite.
BtwSet == {0, 100, 1360, GSM_CFG_CONN_MAX_DATA_LEN, 1500, 2 * GSM_CFG_CONN_MAX_DATA_LEN}

Min(a, b) == IF a < b THEN a ELSE b

(***************************************************************************)
(* Data: sequences of runs.                                                *)
(***************************************************************************)
RECURSIVE DataLen(_)
DataLen(s) == IF s = <<>> THEN 0 ELSE s[1].n + DataLen(Tail(s))

\* The bytes of a followed by the bytes of b.
Cat(a, b) ==
    IF a = <<>> THEN b
    ELSE IF b = <<>> THEN a
    ELSE LET la == a[Len(a)]
             fb == b[1]
         IN  IF la.at + la.n = fb.at
             THEN SubSeq(a, 1, Len(a) - 1) \o <<[at |-> la.at, n |-> la.n + fb.n]>> \o Tail(b)
             ELSE a \o b

\* The first k bytes of s (all of s when it is shorter).
RECURSIVE TakeD(_, _)
TakeD(s, k) ==
    IF k = 0 \/ s = <<>> THEN <<>>
    ELSE IF s[1].n <= k THEN Cat(<<s[1]>>, TakeD(Tail(s), k - s[1].n))
    ELSE <<[at |-> s[1].at, n |-> k]>>

\* s without its first k bytes.
RECURSIVE DropD(_, _)
DropD(s, k) ==
    IF k = 0 \/ s = <<>> THEN s
    ELSE IF s[1].n <= k THEN DropD(Tail(s), k - s[1].n)
    ELSE <<[at |-> s[1].at + k, n |-> s[1].n - k]>> \o Tail(s)

\* The n bytes the application hands over next: bytes first+1 .. first+n of its stream.
Stream(first, n) == IF n = 0 THEN <<>> ELSE <<[at |-> first + 1, n |-> n]>>

\* GSM_MEMCPY(&dst[off], src, DataLen(src)): dst with src written at offset off.
GSM_MEMCPY(dst, off, src) ==
    Cat(Cat(TakeD(dst, off), src), DropD(dst, off + DataLen(src)))

(***************************************************************************)
(* The machine state the handlers work on, as one record, so that a        *)
(* handler is an operator from a machine state to the set of its possible  *)
(* outcomes (one per way its allocations and dispatches can turn out).     *)
(***************************************************************************)
M == [conn |-> conn, heap |-> heap, queue |-> queue, submitted |-> submitted,
      faults |-> faults]

Commit(m) ==
    /\ conn' = m.conn
    /\ heap' = m.heap
    /\ queue' = m.queue
    /\ submitted' = m.submitted
    /\ faults' = m.faults

\* gsm_mem_alloc: a fresh buffer, or NULL (0) when memory is exhausted.
gsm_mem_alloc(m) ==
    {[m |-> [m EXCEPT !.heap = Append(@, [frees |-> 0, late |-> 0, bytes |-> <<>>])],
      p |-> Len(m.heap) + 1]}
    \cup (IF m.faults < MaxFaults
          THEN {[m |-> [m EXCEPT !.faults = @ + 1], p |-> 0]}
          ELSE {})

\* gsm_mem_free(p).
gsm_mem_free(m, p) == [m EXCEPT !.heap[p].frees = @ + 1]

\* A store to buffer p at offset off; a store to a freed buffer is counted.
StoreAt(m, p, off, src) ==
    [m EXCEPT !.heap[p].bytes = GSM_MEMCPY(@, off, src),
              !.heap[p].late = IF m.heap[p].frees > 0 THEN @ + 1 ELSE @]

\* Faulty variant of conn_get_val_id: the val_id of the next occupant.
conn_get_val_id_next(m) == (m.conn.val_id + 1) % VAL_ID_MOD

\* conn_get_val_id.
conn_get_val_id(m) == m.conn.val_id

\* A message for the producer queue.  val_id is the validation id the caller
\* captured and vgen the logical connection it belonged to; data is the buffer
\* sent (0: none, or the caller's own memory) and bytes its content; hgen is
\* the logical connection the caller's handle was obtained for; qgen, set when
\* the message enters the queue, the logical connection in the slot then, and
\* seq its place in the history of accepted messages; owner is the context a
\* blocking message wakes.
Msg(cmd, v, data, bytes, fau, blocking, h, owner) ==
    [cmd_def |-> cmd, val_id |-> v, vgen |-> gen, data |-> data,
     btw |-> DataLen(bytes), bytes |-> bytes, fau |-> fau, blocking |-> blocking,
     hgen |-> h, qgen |-> gen, owner |-> owner, seq |-> 0]

\* The message is appended to the producer mailbox.
Put(m, msg) ==
    LET q == [msg EXCEPT !.qgen = gen, !.seq = Len(m.submitted) + 1]
    IN  [m EXCEPT !.queue = Append(@, q), !.submitted = Append(@, q)]

\* gsmi_send_msg_to_producer_mbox, non-blocking: the message is put in the
\* mailbox (gsmOK) or, the mailbox being full or memory exhausted, dropped.
PutNow(m, msg) ==
    (IF Len(m.queue) < cfg.mbox
     THEN {[m |-> Put(m, msg), res |-> "gsmOK"]}
     ELSE {})
    \cup (IF m.faults < MaxFaults \/ Len(m.queue) >= cfg.mbox
          THEN {[m |-> [m EXCEPT !.faults = @ + 1], res |-> "gsmERRMEM"]}
          ELSE {})

\* conn_send with blocking = 0, as flush_buff and gsm_conn_write call it (the
\* val_id is read and the message queued in one step of the caller).
conn_send(m, data, bytes, fau, h) ==
    IF DataLen(bytes) = 0
    THEN {[m |-> m, res |-> "gsmERRPAR"]}
    ELSE PutNow(m, Msg("CIPSEND", conn_get_val_id(m), data, bytes, fau, 0, h, "none"))

\* Faulty variant of flush_buff: the buffer is not freed when nothing is sent.
flush_buff_nofree(m, h) ==
    IF m.conn.buff # 0
    THEN LET b == m.conn.buff
             sent == IF m.conn.ptr # 0
                     THEN conn_send(m, b, TakeD(m.heap[b].bytes, m.conn.ptr), 1, h)
                     ELSE {[m |-> m, res |-> "gsmERR"]}
         IN  {[m |-> [o.m EXCEPT !.conn.buff = 0], res |-> o.res] : o \in sent}
    ELSE {[m |-> m, res |-> "gsmOK"]}

\* flush_buff.
flush_buff(m, h) ==
    IF m.conn.buff # 0
    THEN LET b == m.conn.buff
             sent == IF m.conn.ptr # 0
                     THEN conn_send(m, b, TakeD(m.heap[b].bytes, m.conn.ptr), 1, h)
                     ELSE {[m |-> m, res |-> "gsmERR"]}
         IN  {[m |-> [(IF o.res # "gsmOK" THEN gsm_mem_free(o.m, b) ELSE o.m)
                        EXCEPT !.conn.buff = 0],
               res |-> o.res] : o \in sent}
    ELSE {[m |-> m, res |-> "gsmOK"]}

(***************************************************************************)
(* gsm_conn_write.  inp is what remains of the caller's data (d, btw).     *)
(* Each step maps a machine state to the set of its outcomes; ret is ""    *)
(* while the call has not returned.                                        *)
(***************************************************************************)
\* Faulty variant of step 1: the data pointer d and btw are not advanced.
write_step1_keep(m, inp, flush, h) ==
    IF m.conn.buff # 0
    THEN LET b    == m.conn.buff
             len  == Min(m.conn.len - m.conn.ptr, DataLen(inp))
             m1   == [StoreAt(m, b, m.conn.ptr, TakeD(inp, len))
                        EXCEPT !.conn.ptr = @ + len]
             rest == inp
         IN  IF m1.conn.ptr = m1.conn.len \/ flush # 0
             THEN {[m |-> [(IF o.res # "gsmOK" THEN gsm_mem_free(o.m, b) ELSE o.m)
                             EXCEPT !.conn.buff = 0],
                    inp |-> rest]
                   : o \in conn_send(m1, b, TakeD(m1.heap[b].bytes, m1.conn.ptr), 1, h)}
             ELSE {[m |-> m1, inp |-> rest]}
    ELSE {[m |-> m, inp |-> inp]}

\* Step 1 and 1.1: append to the staged buffer; send it when full or on flush.
write_step1(m, inp, flush, h) ==
    IF m.conn.buff # 0
    THEN LET b    == m.conn.buff
             len  == Min(m.conn.len - m.conn.ptr, DataLen(inp))
             m1   == [StoreAt(m, b, m.conn.ptr, TakeD(inp, len))
                        EXCEPT !.conn.ptr = @ + len]
             rest == DropD(inp, len)
         IN  IF m1.conn.ptr = m1.conn.len \/ flush # 0
             THEN {[m |-> [(IF o.res # "gsmOK" THEN gsm_mem_free(o.m, b) ELSE o.m)
                             EXCEPT !.conn.buff = 0],
                    inp |-> rest]
                   : o \in conn_send(m1, b, TakeD(m1.heap[b].bytes, m1.conn.ptr), 1, h)}
             ELSE {[m |-> m1, inp |-> rest]}
    ELSE {[m |-> m, inp |-> inp]}

\* Faulty variant of step 2: the loop runs while btw > GSM_CFG_CONN_MAX_DATA_LEN.
RECURSIVE write_step2_gt(_, _, _)
write_step2_gt(m, inp, h) ==
    IF DataLen(inp) > GSM_CFG_CONN_MAX_DATA_LEN
    THEN UNION {
           IF a.p # 0
           THEN LET m1 == StoreAt(a.m, a.p, 0, TakeD(inp, GSM_CFG_CONN_MAX_DATA_LEN))
                IN  UNION {
                      IF o.res # "gsmOK"
                      THEN {[m |-> gsm_mem_free(o.m, a.p), inp |-> inp, ret |-> "gsmERRMEM"]}
                      ELSE write_step2_gt(o.m, DropD(inp, GSM_CFG_CONN_MAX_DATA_LEN), h)
                      : o \in conn_send(m1, a.p, m1.heap[a.p].bytes, 1, h)}
           ELSE {[m |-> a.m, inp |-> inp, ret |-> "gsmERRMEM"]}
           : a \in gsm_mem_alloc(m)}
    ELSE {[m |-> m, inp |-> inp, ret |-> ""]}

\* Faulty variant of step 2: the chunk's buffer is not freed when its
\* dispatch fails.
RECURSIVE write_step2_leak(_, _, _)
write_step2_leak(m, inp, h) ==
    IF DataLen(inp) >= GSM_CFG_CONN_MAX_DATA_LEN
    THEN UNION {
           IF a.p # 0
           THEN LET m1 == StoreAt(a.m, a.p, 0, TakeD(inp, GSM_CFG_CONN_MAX_DATA_LEN))
                IN  UNION {
                      IF o.res # "gsmOK"
                      THEN {[m |-> o.m, inp |-> inp, ret |-> "gsmERRMEM"]}
                      ELSE write_step2_leak(o.m, DropD(inp, GSM_CFG_CONN_MAX_DATA_LEN), h)
                      : o \in conn_send(m1, a.p, m1.heap[a.p].bytes, 1, h)}
           ELSE {[m |-> a.m, inp |-> inp, ret |-> "gsmERRMEM"]}
           : a \in gsm_mem_alloc(m)}
    ELSE {[m |-> m, inp |-> inp, ret |-> ""]}

\* Step 2: one buffer and one send per full chunk; a failure ends the call.
RECURSIVE write_step2(_, _, _)
write_step2(m, inp, h) ==
    IF DataLen(inp) >= GSM_CFG_CONN_MAX_DATA_LEN
    THEN UNION {
           IF a.p # 0
           THEN LET m1 == StoreAt(a.m, a.p, 0, TakeD(inp, GSM_CFG_CONN_MAX_DATA_LEN))
                IN  UNION {
                      IF o.res # "gsmOK"
                      THEN {[m |-> gsm_mem_free(o.m, a.p), inp |-> inp, ret |-> "gsmERRMEM"]}
                      ELSE write_step2(o.m, DropD(inp, GSM_CFG_CONN_MAX_DATA_LEN), h)
                      : o \in conn_send(m1, a.p, m1.heap[a.p].bytes, 1, h)}
           ELSE {[m |-> a.m, inp |-> inp, ret |-> "gsmERRMEM"]}
           : a \in gsm_mem_alloc(m)}
    ELSE {[m |-> m, inp |-> inp, ret |-> ""]}

\* Faulty variant of step 3: a failed allocation always ends the call.
write_step3_hard(m, inp) ==
    LET made == IF m.conn.buff = 0
                THEN {[a.m EXCEPT !.conn.buff = a.p,
                                  !.conn.len = GSM_CFG_CONN_MAX_DATA_LEN,
                                  !.conn.ptr = 0] : a \in gsm_mem_alloc(m)}
                ELSE {m}
    IN  {IF m1.conn.buff # 0
         THEN [m |-> [StoreAt(m1, m1.conn.buff, 0, inp) EXCEPT !.conn.ptr = DataLen(inp)],
               ret |-> "", nomem |-> FALSE]
         ELSE [m |-> m1, ret |-> "gsmERRMEM", nomem |-> TRUE]
         : m1 \in made}

\* Step 3: create the staged buffer if there is none, copy what remains.
\* nomem: the allocation of the staged buffer failed.
write_step3(m, inp) ==
    LET made == IF m.conn.buff = 0
                THEN {[a.m EXCEPT !.conn.buff = a.p,
                                  !.conn.len = GSM_CFG_CONN_MAX_DATA_LEN,
                                  !.conn.ptr = 0] : a \in gsm_mem_alloc(m)}
                ELSE {m}
    IN  {IF DataLen(inp) # 0
         THEN IF m1.conn.buff # 0
              THEN [m |-> [StoreAt(m1, m1.conn.buff, 0, inp) EXCEPT !.conn.ptr = DataLen(inp)],
                    ret |-> "", nomem |-> FALSE]
              ELSE [m |-> m1, ret |-> "gsmERRMEM", nomem |-> TRUE]
         ELSE [m |-> m1, ret |-> "", nomem |-> m1.conn.buff = 0]
         : m1 \in made}

\* Faulty variant of step 4: the staged buffer is not flushed.
write_step4_noflush(m, flush, h) ==
    {[m |-> m, ret |-> "gsmOK",
      avail |-> IF m.conn.buff # 0 THEN m.conn.len - m.conn.ptr ELSE 0]}

\* Faulty variant of step 4: *mem_available is the capacity of the buffer.
write_step4_len(m, flush, h) ==
    LET flushed == IF flush # 0 /\ m.conn.buff # 0
                   THEN {o.m : o \in flush_buff(m, h)}
                   ELSE {m}
    IN  {[m |-> m1, ret |-> "gsmOK",
          avail |-> IF m1.conn.buff # 0 THEN m1.conn.len ELSE 0]
         : m1 \in flushed}

\* Faulty variant of step 4: with no staged buffer, *mem_available is the
\* capacity of a buffer.
write_step4_cap(m, flush, h) ==
    LET flushed == IF flush # 0 /\ m.conn.buff # 0
                   THEN {o.m : o \in flush_buff(m, h)}
                   ELSE {m}
    IN  {[m |-> m1, ret |-> "gsmOK",
          avail |-> IF m1.conn.buff # 0 THEN m1.conn.len - m1.conn.ptr
                    ELSE GSM_CFG_CONN_MAX_DATA_LEN]
         : m1 \in flushed}

\* Step 4 and the computation of *mem_available (-1: not written).
write_step4(m, flush, h) ==
    LET flushed == IF flush # 0 /\ m.conn.buff # 0
                   THEN {o.m : o \in flush_buff(m, h)}
                   ELSE {m}
    IN  {[m |-> m1, ret |-> "gsmOK",
          avail |-> IF m1.conn.buff # 0 THEN m1.conn.len - m1.conn.ptr ELSE 0]
         : m1 \in flushed}

\* The whole call: the set of [m, ret, avail] it can end in, with nomem of
\* step 3, step, the step in which the call returned, in2 and rest, the
\* lengths of the input that remained after step 1 and after step 2.
gsm_conn_write(m, inp, flush, h) ==
    UNION {
      UNION {
        IF s2.ret # ""
        THEN {[m |-> s2.m, ret |-> s2.ret, avail |-> -1, nomem |-> FALSE,
               step |-> 2, in2 |-> DataLen(s1.inp), rest |-> DataLen(s2.inp)]}
        ELSE UNION {
               IF s3.ret # ""
               THEN {[m |-> s3.m, ret |-> s3.ret, avail |-> -1, nomem |-> s3.nomem,
                      step |-> 3, in2 |-> DataLen(s1.inp), rest |-> DataLen(s2.inp)]}
               ELSE {[m |-> s4.m, ret |-> s4.ret, avail |-> s4.avail, nomem |-> s3.nomem,
                      step |-> 4, in2 |-> DataLen(s1.inp), rest |-> DataLen(s2.inp)]
                     : s4 \in write_step4(s3.m, flush, h)}
               : s3 \in write_step3(s2.m, s2.inp)}
        : s2 \in write_step2(s1.m, s1.inp, h)}
      : s1 \in write_step1(m, inp, flush, h)}

(***************************************************************************)
(* The poll timer.  A pending timer is the number of the logical           *)
(* connection its chain was first armed for; the callback itself only      *)
(* gets the slot.                                                          *)
(***************************************************************************)
\* gsm_timeout_add(GSM_CFG_CONN_POLL_INTERVAL, conn_timeout_cb, conn).
gsm_timeout_add(ts, chain) == Append(ts, chain)

\* gsmi_conn_start_timeout, called when the connection becomes active.
gsmi_conn_start_timeout(ts, g) == gsm_timeout_add(ts, g)

\* Faulty variant of conn_timeout_cb: the state of the connection is not tested.
conn_timeout_cb_always(c) == [emit |-> 1, rearm |-> 1]

\* conn_timeout_cb: the number of GSM_EVT_CONN_POLL events it sends and of
\* timers it adds.
conn_timeout_cb(c) ==
    IF c.active THEN [emit |-> 1, rearm |-> 1] ELSE [emit |-> 0, rearm |-> 0]

NoPoll == [n |-> 0, fired |-> 0, chain |-> 0, gen |-> 0, active |-> FALSE,
           emit |-> 0, rearm |-> 0, before |-> 0, after |-> 0]

(***************************************************************************)
(* The core lock.  For the lock discipline a call is the sequence of its   *)
(* lock-level events: GSM_CORE_PROTECT, GSM_CORE_UNPROTECT, an access to a *)
(* field of the connection, a submission to the producer mailbox.  Each    *)
(* function below is the set of [ev, res] it can perform: the events of    *)
(* one path through its code and the result it returns on that path (every *)
(* branch combination of the control flow is taken as possible).           *)
(***************************************************************************)
Contexts == {"app", "core"}

LOCK == [k |-> "lock", f |-> "", blocking |-> 0]
UNLOCK == [k |-> "unlock", f |-> "", blocking |-> 0]
\* An access (read or write) to field f of the connection.
ACC(f) == [k |-> "acc", f |-> f, blocking |-> 0]
\* gsmi_send_msg_to_producer_mbox; a blocking one also waits for the executor.
SUBMIT(blocking) == [k |-> "submit", f |-> "", blocking |-> blocking]

\* Results of gsmi_send_msg_to_producer_mbox.
SubmitRes(blocking) ==
    IF blocking # 0 THEN {"gsmOK", "gsmERR", "gsmERRMEM"} ELSE {"gsmOK", "gsmERRMEM"}

\* GSM_ASSERT fails: the function returns gsmERRPAR at once.
AssertFails == {[ev |-> <<>>, res |-> "gsmERRPAR"]}

\* conn_get_val_id, lines 73-81.
conn_get_val_id_ev == <<LOCK, ACC("val_id"), UNLOCK>>

\* conn_send, lines 96-121.
conn_send_ev(blocking) ==
    AssertFails
    \cup {[ev |-> <<>>, res |-> "gsmERRMEM"]}
    \cup {[ev |-> conn_get_val_id_ev \o <<SUBMIT(blocking)>>, res |-> r]
          : r \in SubmitRes(blocking)}

\* Faulty variant of flush_buff: the path with no buffer returns without
\* GSM_CORE_UNPROTECT.
flush_buff_ev_held ==
    {[ev |-> <<LOCK, ACC("buff")>>, res |-> "gsmOK"]}

\* flush_buff, lines 128-151: the lock is taken at line 131 and released at
\* line 149; conn_send is called in between.  ACC("buff") is an access to
\* conn->buff.buff, conn->buff.len or conn->buff.ptr in one statement.
flush_buff_ev ==
    {[ev |-> <<LOCK, ACC("buff"), UNLOCK>>, res |-> "gsmOK"]}
    \cup {[ev |-> <<LOCK, ACC("buff"), ACC("buff")>> \o s.ev
                  \o (IF s.res # "gsmOK" THEN <<ACC("buff")>> ELSE <<>>)
                  \o <<ACC("buff"), UNLOCK>>,
           res |-> s.res]
          : s \in conn_send_ev(0) \cup {[ev |-> <<>>, res |-> "gsmERR"]}}

\* gsm_conn_start, lines 172-192.
gsm_conn_start_ev(blocking) ==
    AssertFails
    \cup {[ev |-> <<>>, res |-> "gsmERRMEM"]}
    \cup {[ev |-> <<SUBMIT(blocking)>>, res |-> r] : r \in SubmitRes(blocking)}

\* gsm_conn_close, lines 200-232.
gsm_conn_close_ev(blocking) ==
    AssertFails
    \cup {[ev |-> <<LOCK, ACC("status"), UNLOCK>>, res |-> "gsmERR"]}
    \cup {[ev |-> <<LOCK, ACC("status"), UNLOCK>>, res |-> "gsmERRMEM"]}
    \cup {[ev |-> <<LOCK, ACC("status"), UNLOCK>> \o conn_get_val_id_ev \o f.ev
                  \o <<SUBMIT(blocking)>>
                  \o (IF r = "gsmOK" /\ blocking = 0
                      THEN <<LOCK, ACC("status"), UNLOCK>> ELSE <<>>),
           res |-> r]
          : f \in flush_buff_ev, r \in SubmitRes(blocking)}

\* gsm_conn_sendto, lines 246-252.
gsm_conn_sendto_ev(blocking) ==
    AssertFails
    \cup {[ev |-> f.ev \o s.ev, res |-> s.res]
          : f \in flush_buff_ev, s \in conn_send_ev(blocking)}

\* gsm_conn_send, lines 264-290.
gsm_conn_send_ev(blocking) ==
    LET copy == {<<LOCK, ACC("buff"), UNLOCK>>,
                 <<LOCK, ACC("buff"), ACC("buff"), UNLOCK>>,
                 <<LOCK, ACC("buff"), ACC("buff"), ACC("buff"), UNLOCK>>}
    IN  AssertFails
        \cup {[ev |-> c \o f.ev, res |-> f.res] : c \in copy, f \in flush_buff_ev}
        \cup {[ev |-> c \o f.ev \o s.ev, res |-> s.res]
              : c \in copy, f \in flush_buff_ev, s \in conn_send_ev(blocking)}

\* gsm_conn_write, lines 482-579: no GSM_CORE_PROTECT of its own.  The steps
\* are sets of [ev, res], res = "" when the call goes on to the next step.
write_step1_ev ==
    LET head == <<ACC("buff"), ACC("buff")>>
    IN  {[ev |-> <<ACC("buff")>>, res |-> ""], [ev |-> head, res |-> ""]}
        \cup {[ev |-> head \o s.ev
                      \o (IF s.res # "gsmOK" THEN <<ACC("buff")>> ELSE <<>>)
                      \o <<ACC("buff")>>,
               res |-> ""]
              : s \in conn_send_ev(0)}

write_step2_ev ==
    {[ev |-> <<>>, res |-> ""], [ev |-> <<>>, res |-> "gsmERRMEM"]}
    \cup {[ev |-> s.ev, res |-> IF s.res = "gsmOK" THEN "" ELSE "gsmERRMEM"]
          : s \in conn_send_ev(0)}

write_step3_ev ==
    LET made == {<<ACC("buff")>>, <<ACC("buff"), ACC("buff")>>}
    IN  {[ev |-> m, res |-> ""] : m \in made}
        \cup {[ev |-> m \o <<ACC("buff"), ACC("buff")>>, res |-> ""] : m \in made}
        \cup {[ev |-> m \o <<ACC("buff")>>, res |-> "gsmERRMEM"] : m \in made}

write_step4_ev ==
    LET avail == {<<>>, <<ACC("buff")>>}
    IN  {[ev |-> <<ACC("buff")>> \o a, res |-> "gsmOK"] : a \in avail}
        \cup {[ev |-> <<ACC("buff")>> \o f.ev \o a, res |-> "gsmOK"]
              : f \in flush_buff_ev, a \in avail}

\* p, then, when p did not return, one of the continuations in next.
ThenEv(ps, next) ==
    {p \in ps : p.res # ""}
    \cup {[ev |-> p.ev \o n.ev, res |-> n.res] : p \in {q \in ps : q.res = ""}, n \in next}

gsm_conn_write_ev ==
    AssertFails
    \cup ThenEv(ThenEv(ThenEv(write_step1_ev, write_step2_ev), write_step3_ev),
                write_step4_ev)

\* conn_timeout_cb, lines 44-57: no GSM_CORE_PROTECT of its own.
conn_timeout_cb_ev ==
    {[ev |-> <<ACC("status")>>, res |-> ""]}

\* gsm_conn_set_arg, gsm_conn_get_arg, gsm_conn_is_client, gsm_conn_is_server,
\* gsm_conn_is_active, gsm_conn_is_closed, gsm_conn_get_total_recved_count,
\* gsm_conn_get_remote_ip, gsm_conn_get_remote_port, gsm_conn_get_local_port:
\* the field is accessed between GSM_CORE_PROTECT and GSM_CORE_UNPROTECT, or
\* not at all when the handle is not valid.
AccessorFields == {"arg", "status", "total_recved", "remote_ip", "remote_port", "local_port"}

accessor_ev(f) ==
    {[ev |-> <<>>, res |-> ""], [ev |-> <<LOCK, ACC(f), UNLOCK>>, res |-> ""]}

\* gsm_conn_getnum, lines 438-446: conn->num is read without the lock.
gsm_conn_getnum_ev ==
    {[ev |-> <<>>, res |-> ""], [ev |-> <<ACC("num")>>, res |-> ""]}

\* The calls of an application context and of the library's own context (the
\* connection callback and the timeout scheduler), with their paths.
AppCalls ==
    {[op |-> "gsm_conn_close", p |-> p] : p \in gsm_conn_close_ev(0) \cup gsm_conn_close_ev(1)}
    \cup {[op |-> "gsm_conn_send", p |-> p] : p \in gsm_conn_send_ev(0) \cup gsm_conn_send_ev(1)}
    \cup {[op |-> "gsm_conn_sendto", p |-> p] : p \in gsm_conn_sendto_ev(0) \cup gsm_conn_sendto_ev(1)}
    \cup {[op |-> "gsm_conn_start", p |-> p] : p \in gsm_conn_start_ev(0) \cup gsm_conn_start_ev(1)}
    \cup {[op |-> "accessor", p |-> p] : p \in UNION {accessor_ev(f) : f \in AccessorFields}}
    \cup {[op |-> "gsm_conn_getnum", p |-> p] : p \in gsm_conn_getnum_ev}

CoreCalls ==
    {[op |-> "gsm_conn_write", p |-> p] : p \in gsm_conn_write_ev}
    \cup {[op |-> "conn_timeout_cb", p |-> p] : p \in conn_timeout_cb_ev}

\* owner / depth: the context holding the (recursive) core lock and how many
\* times; per context: the call in progress, the events it has left, the
\* result it will return, the lock depth it was entered with.
NoLock ==
    [owner |-> "none", depth |-> 0,
     op |-> [c \in Contexts |-> "none"],
     prog |-> [c \in Contexts |-> <<>>],
     res |-> [c \in Contexts |-> ""],
     d0 |-> [c \in Contexts |-> 0]]

(***************************************************************************)
(* Initial state: one active connection, nothing staged, nothing queued.   *)
(***************************************************************************)
Threads == {"app1", "app2"}

NoCall == [op |-> "none", allok |-> TRUE]

\* The locals of an API call of an application context: op the function, h the
\* logical connection the handle was obtained for, res its result ("" until it
\* returns), msg the message it builds, inp the caller's data not yet consumed,
\* fres the result of its flush_buff or conn_send, flush the flag passed to
\* gsm_conn_write.  History: g0 the logical connection in
\* the slot at the call's first step, idx the place in submitted of the
\* command the call queued (0: none), copied the number of bytes gsm_conn_send
\* copied to the staged buffer, staged the bytes that were staged when the
\* call made its flush_buff, fidx the place in submitted of the command
\* that flush_buff queued (0: none), fh the number of buffers allocated until
\* then, again whether, at the first step, the
\* close command queued by this context's previous call was still in the
\* queue and belonged to the connection then in the slot, prevres the result
\* of that previous call.
NoMsg ==
    [cmd_def |-> "none", val_id |-> 0, vgen |-> 0, data |-> 0, btw |-> 0,
     bytes |-> <<>>, fau |-> 0, blocking |-> 0, hgen |-> 0, qgen |-> 0,
     owner |-> "none", seq |-> 0]

Locals(op, h, blocking, inp, t) ==
    [op |-> op, h |-> h, blocking |-> blocking, res |-> "", msg |-> NoMsg,
     inp |-> inp, fres |-> "", flush |-> 0, g0 |-> gen, idx |-> 0,
     staged |-> <<>>, fidx |-> 0, fh |-> 0, copied |-> 0,
     again |-> /\ loc[t].op = "close"
               /\ loc[t].idx # 0
               /\ \E i \in DOMAIN queue : queue[i].seq = loc[t].idx
               /\ submitted[loc[t].idx].vgen = gen,
     prevres |-> loc[t].res]

NoLocals ==
    [op |-> "none", h |-> 0, blocking |-> 0, res |-> "", msg |-> NoMsg,
     inp |-> <<>>, fres |-> "", flush |-> 0, g0 |-> 0, idx |-> 0,
     staged |-> <<>>, fidx |-> 0, fh |-> 0, copied |-> 0, again |-> FALSE,
     prevres |-> ""]

InitState ==
    /\ conn = [active |-> TRUE, in_closing |-> FALSE, val_id |-> 1,
               buff |-> 0, len |-> 0, ptr |-> 0]
    /\ heap = <<>>
    /\ queue = <<>>
    /\ submitted = <<>>
    /\ applied = [seq |-> 0, cmd_def |-> "none", hgen |-> 0, vgen |-> 0,
                  qgen |-> 0, gen |-> 0, out |-> "none"]
    /\ gen = 1
    /\ faults = 0
    /\ written = 0
    /\ calls = 0
    /\ last = NoCall
    /\ pc = [t \in Threads |-> "idle"]
    /\ loc = [t \in Threads |-> NoLocals]
    /\ timers = gsmi_conn_start_timeout(<<>>, 1)
    /\ polls = NoPoll
    /\ lk = NoLock

Init ==
    /\ InitState
    /\ cfg = [mbox |-> MaxQueue, calls |-> MaxCalls, starts |-> MaxStarts]

(***************************************************************************)
(* gsm_conn_write called from a connection callback, taken as one step     *)
(* (WriteSend and WriteRest below cut the call at step 1.1 for a caller    *)
(* that does not hold the core lock).  lens: the lengths the caller may    *)
(* pass; h: the logical connection the caller's handle was obtained for.   *)
(***************************************************************************)
Write(lens, h) ==
    \E btw \in lens, flush \in {0, 1} :
      \E o \in gsm_conn_write(M, Stream(written, btw), flush, h) :
        /\ Commit(o.m)
        /\ written' = written + btw
        /\ calls' = calls + 1
        /\ last' = [op |-> "write", btw |-> btw, flush |-> flush, ret |-> o.ret,
                    avail |-> o.avail, pre |-> conn, post |-> o.m.conn,
                    q0 |-> Len(submitted), q1 |-> Len(o.m.submitted),
                    h0 |-> Len(heap), heap1 |-> o.m.heap,
                    f0 |-> faults, f1 |-> o.m.faults, nomem |-> o.nomem,
                    step |-> o.step, in2 |-> o.in2, rest |-> o.rest,
                    allok |-> (last.allok /\ o.ret = "gsmOK")]
        /\ UNCHANGED <<applied, gen, pc, loc, cfg, timers, polls, lk>>

WriteOnly ==
    /\ calls < MaxWrites
    /\ Write(BtwSet, gen)

NextWrite == WriteOnly

SpecWrite == Init /\ [][NextWrite]_vars

(***************************************************************************)
(* API calls of an application context t.  A call is a sequence of steps;  *)
(* each step is what the call does between two points where another        *)
(* context can run: one critical section of the core lock, or one          *)
(* submission to the producer mailbox.                                     *)
(***************************************************************************)
\* Lengths passed to gsm_conn_write and to gsm_conn_send / gsm_conn_sendto in Spec.
SpecBtwSet == {0, 100}
SendBtwSet == {0, 1500}

Begin(t) == pc[t] = "idle" /\ calls < cfg.calls

\* The call of context t returns res.
Return(t, res) ==
    /\ pc' = [pc EXCEPT ![t] = "idle"]
    /\ loc' = [loc EXCEPT ![t].res = res]

Goto(t, where) == pc' = [pc EXCEPT ![t] = where]

\* GSM_MSG_VAR_ALLOC: the message memory is obtained, or the call returns gsmERRMEM.
MsgAllocFails == faults < MaxFaults

\* gsmi_send_msg_to_producer_mbox of the message in loc[t].msg: a non-blocking
\* message is accepted (the call goes on at `next`) or rejected (gsmERRMEM);
\* a blocking one is put as soon as the mailbox has room and the caller waits
\* for the executor, or its semaphore cannot be created (gsmERRMEM).
Submit(t, next) ==
    LET msg == loc[t].msg
    IN  \/ /\ Len(queue) < cfg.mbox
           /\ Commit(Put(M, msg))
           /\ pc' = [pc EXCEPT ![t] = IF msg.blocking # 0 THEN "wait" ELSE next]
           /\ loc' = [loc EXCEPT ![t].idx = Len(submitted) + 1]
        \/ /\ faults < MaxFaults \/ (msg.blocking = 0 /\ Len(queue) >= cfg.mbox)
           /\ Commit([M EXCEPT !.faults = @ + 1])
           /\ Return(t, "gsmERRMEM")

\* Faulty variant of the state check: a connection that is not active passes.
close_rejected_closing(c) == c.in_closing

\* gsm_conn_close, lines 207-214: the state check under the core lock.
close_rejected(c) == c.in_closing \/ ~c.active

CloseCall(t) ==
    /\ Begin(t)
    /\ \E blocking \in {0, 1}, h \in 1 .. gen :
         LET l == Locals("close", h, blocking, <<>>, t)
         IN  IF close_rejected(conn)
             THEN /\ pc' = [pc EXCEPT ![t] = "idle"]
                  /\ loc' = [loc EXCEPT ![t] = [l EXCEPT !.res = "gsmERR"]]
             ELSE /\ pc' = [pc EXCEPT ![t] = "close_msg"]
                  /\ loc' = [loc EXCEPT ![t] = l]
    /\ calls' = calls + 1
    /\ UNCHANGED <<conn, heap, queue, submitted, applied, gen, faults, written, last, cfg, timers, polls, lk>>

\* Lines 217-220: the message is allocated and takes the connection's val_id.
CloseMsg(t) ==
    /\ pc[t] = "close_msg"
    /\ \/ /\ Goto(t, "close_flush")
          /\ loc' = [loc EXCEPT ![t].msg =
                       Msg("CIPCLOSE", conn_get_val_id(M), 0, <<>>, 0,
                           loc[t].blocking, loc[t].h, t)]
          /\ UNCHANGED faults
       \/ /\ MsgAllocFails
          /\ faults' = faults + 1
          /\ Return(t, "gsmERRMEM")
    /\ UNCHANGED <<conn, heap, queue, submitted, applied, gen, written, calls, last, cfg, timers, polls, lk>>

\* The history a call keeps of its flush_buff, whose outcome is o.
Flushed(t, o) ==
    [loc[t] EXCEPT !.fres = o.res,
                   !.staged = IF conn.buff # 0
                              THEN TakeD(heap[conn.buff].bytes, conn.ptr) ELSE <<>>,
                   !.fidx = IF Len(o.m.submitted) > Len(submitted)
                            THEN Len(o.m.submitted) ELSE 0,
                   !.fh = Len(heap)]

\* Faulty variant of line 222: a failed flush_buff ends the call.
CloseFlush_abort(t) ==
    /\ pc[t] = "close_flush"
    /\ \E o \in flush_buff(M, loc[t].h) :
         /\ Commit(o.m)
         /\ pc' = [pc EXCEPT ![t] = IF o.res = "gsmOK" THEN "close_put" ELSE "idle"]
         /\ loc' = [loc EXCEPT ![t] = [Flushed(t, o) EXCEPT !.res =
                                         IF o.res = "gsmOK" THEN "" ELSE o.res]]
    /\ UNCHANGED <<applied, gen, written, calls, last, cfg, timers, polls, lk>>

\* Line 222: flush_buff(conn), its result ignored.
CloseFlush(t) ==
    /\ pc[t] = "close_flush"
    /\ \E o \in flush_buff(M, loc[t].h) :
         /\ Commit(o.m)
         /\ loc' = [loc EXCEPT ![t] = Flushed(t, o)]
    /\ Goto(t, "close_put")
    /\ UNCHANGED <<applied, gen, written, calls, last, cfg, timers, polls, lk>>

\* Line 223: the close message goes to the producer mailbox.
ClosePut(t) ==
    /\ pc[t] = "close_put"
    /\ Submit(t, "close_mark")
    /\ UNCHANGED <<applied, gen, written, calls, last, cfg, timers, polls, lk>>

\* Faulty variant of lines 224-230: in_closing is not set.
close_mark_none(c) == c

\* Lines 224-230: after an accepted non-blocking close the connection is
\* marked as closing.
close_mark(c) == [c EXCEPT !.in_closing = TRUE]

CloseMark(t) ==
    /\ pc[t] = "close_mark"
    /\ conn' = close_mark(conn)
    /\ Return(t, "gsmOK")
    /\ UNCHANGED <<heap, queue, submitted, applied, gen, faults, written, calls, last, cfg, timers, polls, lk>>

\* gsm_conn_send, lines 269-284: the head of the data is copied to the staged
\* buffer, if there is one.
send_copy(m, inp) ==
    IF m.conn.buff # 0
    THEN LET to_copy == Min(DataLen(inp), m.conn.len - m.conn.ptr)
         IN  IF to_copy # 0
             THEN [m |-> [StoreAt(m, m.conn.buff, m.conn.ptr, TakeD(inp, to_copy))
                            EXCEPT !.conn.ptr = @ + to_copy],
                   inp |-> DropD(inp, to_copy)]
             ELSE [m |-> m, inp |-> inp]
    ELSE [m |-> m, inp |-> inp]

SendCall(t) ==
    /\ Begin(t)
    /\ \E btw \in SendBtwSet, blocking \in {0, 1}, h \in 1 .. gen :
         LET l == Locals("send", h, blocking, Stream(written, btw), t)
         IN  IF btw = 0
             THEN /\ pc' = [pc EXCEPT ![t] = "idle"]
                  /\ loc' = [loc EXCEPT ![t] = [l EXCEPT !.res = "gsmERRPAR"]]
                  /\ UNCHANGED <<conn, heap, written>>
             ELSE LET o == send_copy(M, l.inp)
                  IN  /\ conn' = o.m.conn
                      /\ heap' = o.m.heap
                      /\ pc' = [pc EXCEPT ![t] = "send_flush"]
                      /\ loc' = [loc EXCEPT ![t] =
                                   [l EXCEPT !.inp = o.inp,
                                             !.copied = DataLen(l.inp) - DataLen(o.inp)]]
                      /\ written' = written + btw
    /\ calls' = calls + 1
    /\ UNCHANGED <<queue, submitted, applied, gen, faults, last, cfg, timers, polls, lk>>

\* Line 285 (gsm_conn_send) and line 250 (gsm_conn_sendto): flush_buff(conn).
SendFlush(t) ==
    /\ pc[t] = "send_flush"
    /\ \E o \in flush_buff(M, loc[t].h) :
         /\ Commit(o.m)
         /\ IF loc[t].op = "send" /\ loc[t].inp = <<>>
            THEN /\ pc' = [pc EXCEPT ![t] = "idle"]
                 /\ loc' = [loc EXCEPT ![t] = [Flushed(t, o) EXCEPT !.res = o.res]]
            ELSE /\ Goto(t, "send_msg")
                 /\ loc' = [loc EXCEPT ![t] = Flushed(t, o)]
    /\ UNCHANGED <<applied, gen, written, calls, last, cfg, timers, polls, lk>>

\* gsm_conn_sendto: the call starts with the flush.
SendtoCall(t) ==
    /\ Begin(t)
    /\ \E btw \in SendBtwSet, blocking \in {0, 1}, h \in 1 .. gen :
         /\ loc' = [loc EXCEPT ![t] = Locals("sendto", h, blocking, Stream(written, btw), t)]
         /\ written' = written + btw
    /\ Goto(t, "send_flush")
    /\ calls' = calls + 1
    /\ UNCHANGED <<conn, heap, queue, submitted, applied, gen, faults, last, cfg, timers, polls, lk>>

\* conn_send, lines 100-118, for the caller's own data (fau = 0).
SendBuild(t) ==
    /\ pc[t] = "send_msg"
    /\ \/ /\ loc[t].inp = <<>>
          /\ Return(t, "gsmERRPAR")
          /\ UNCHANGED faults
       \/ /\ loc[t].inp # <<>>
          /\ Goto(t, "send_put")
          /\ loc' = [loc EXCEPT ![t].msg =
                       Msg("CIPSEND", conn_get_val_id(M), 0, loc[t].inp, 0,
                           loc[t].blocking, loc[t].h, t)]
          /\ UNCHANGED faults
       \/ /\ loc[t].inp # <<>>
          /\ MsgAllocFails
          /\ faults' = faults + 1
          /\ Return(t, "gsmERRMEM")
    /\ UNCHANGED <<conn, heap, queue, submitted, applied, gen, written, calls, last, cfg, timers, polls, lk>>

\* conn_send, line 120.
SendPut(t) ==
    /\ pc[t] = "send_put"
    /\ Submit(t, "send_done")
    /\ UNCHANGED <<applied, gen, written, calls, last, cfg, timers, polls, lk>>

\* The non-blocking send was accepted: conn_send returns gsmOK.
SendDone(t) ==
    /\ pc[t] = "send_done"
    /\ Return(t, "gsmOK")
    /\ UNCHANGED <<conn, heap, queue, submitted, applied, gen, faults, written, calls, last, cfg, timers, polls, lk>>

\* gsm_conn_start: a CIPSTART message is built and goes to the producer
\* mailbox, or the call returns gsmERRMEM.
StartCall(t) ==
    /\ Begin(t)
    /\ Cardinality({i \in DOMAIN submitted : submitted[i].cmd_def = "CIPSTART"}) < cfg.starts
    /\ \E blocking \in {0, 1} :
         LET l == Locals("start", gen, blocking, <<>>, t)
             msg == Msg("CIPSTART", 0, 0, <<>>, 0, blocking, gen, t)
         IN  \/ /\ Len(queue) < cfg.mbox
                /\ Commit(Put(M, msg))
                /\ pc' = [pc EXCEPT ![t] = IF blocking # 0 THEN "wait" ELSE "idle"]
                /\ loc' = [loc EXCEPT ![t] = [l EXCEPT !.msg = msg,
                                                      !.idx = Len(submitted) + 1,
                                                      !.res = IF blocking # 0 THEN "" ELSE "gsmOK"]]
             \/ /\ faults < MaxFaults \/ (blocking = 0 /\ Len(queue) >= cfg.mbox)
                /\ Commit([M EXCEPT !.faults = @ + 1])
                /\ pc' = [pc EXCEPT ![t] = "idle"]
                /\ loc' = [loc EXCEPT ![t] = [l EXCEPT !.res = "gsmERRMEM"]]
    /\ calls' = calls + 1
    /\ UNCHANGED <<applied, gen, written, last, cfg, timers, polls, lk>>

\* gsm_conn_write from a connection callback.
WriteCb ==
    /\ calls < cfg.calls
    /\ \E h \in 1 .. gen : Write(SpecBtwSet, h)

(***************************************************************************)
(* gsm_conn_write called by a context t that does not hold the core lock   *)
(* (the function takes no lock itself).  Between conn_send at line 514 and *)
(* the reset of conn->buff.buff at line 521 every other context can run;   *)
(* the call is cut at that point when step 1.1 sends the staged buffer.    *)
(***************************************************************************)
\* Lines 504-514: step 1 up to and including conn_send of the staged buffer.
WriteSend(t) ==
    /\ Begin(t)
    /\ conn.buff # 0
    /\ \E btw \in SpecBtwSet, flush \in {0, 1}, h \in 1 .. gen :
         LET inp == Stream(written, btw)
             len == Min(conn.len - conn.ptr, DataLen(inp))
             m1  == [StoreAt(M, conn.buff, conn.ptr, TakeD(inp, len))
                       EXCEPT !.conn.ptr = @ + len]
         IN  /\ m1.conn.ptr = m1.conn.len \/ flush # 0
             /\ \E o \in conn_send(m1, conn.buff,
                                    TakeD(m1.heap[conn.buff].bytes, m1.conn.ptr), 1, h) :
                  /\ Commit(o.m)
                  /\ loc' = [loc EXCEPT ![t] =
                               [Locals("write", h, 0, DropD(inp, len), t)
                                  EXCEPT !.fres = o.res, !.flush = flush]]
             /\ written' = written + btw
    /\ Goto(t, "write_sent")
    /\ calls' = calls + 1
    /\ UNCHANGED <<applied, gen, last, cfg, timers, polls, lk>>

\* Lines 515-521, then steps 2 to 4: the buffer conn->buff.buff refers to now
\* is freed if conn_send failed, the reference is reset, the call goes on.
WriteRest(t) ==
    /\ pc[t] = "write_sent"
    /\ LET m0 == IF loc[t].fres # "gsmOK" /\ conn.buff # 0
                 THEN gsm_mem_free(M, conn.buff) ELSE M
           m1 == [m0 EXCEPT !.conn.buff = 0]
       IN  \E s2 \in write_step2(m1, loc[t].inp, loc[t].h) :
             IF s2.ret # ""
             THEN Commit(s2.m) /\ Return(t, s2.ret)
             ELSE \E s3 \in write_step3(s2.m, s2.inp) :
                    IF s3.ret # ""
                    THEN Commit(s3.m) /\ Return(t, s3.ret)
                    ELSE \E s4 \in write_step4(s3.m, loc[t].flush, loc[t].h) :
                           Commit(s4.m) /\ Return(t, s4.ret)
    /\ UNCHANGED <<applied, gen, written, calls, last, cfg, timers, polls, lk>>


(***************************************************************************)
(* The executor (gsmi_initiate_cmd and the command processing behind it)   *)
(* and what the modem reports.                                             *)
(***************************************************************************)
\* The connection as the executor leaves it when it is closed.
conn_closed(c) == [c EXCEPT !.active = FALSE, !.in_closing = FALSE]

\* The slot reassigned to a new logical connection: val_id is incremented.
conn_reused(c) ==
    [c EXCEPT !.active = TRUE, !.in_closing = FALSE,
              !.val_id = (@ + 1) % VAL_ID_MOD]

\* The executor's check of a send or close command against the slot.
is_stale(msg, c) == msg.val_id # c.val_id

\* What the executor does with the command at the head of the queue.
Outcome(msg) ==
    IF msg.cmd_def = "CIPSTART"
    THEN IF conn.active THEN "failed" ELSE "done"
    ELSE IF is_stale(msg, conn) THEN "discarded"
    ELSE IF conn.active THEN "done" ELSE "failed"

Execute ==
    /\ queue # <<>>
    /\ LET msg == Head(queue)
           out == Outcome(msg)
           m1  == [M EXCEPT !.queue = Tail(@)]
           m2  == IF msg.cmd_def = "CIPSEND" /\ msg.fau # 0
                  THEN gsm_mem_free(m1, msg.data) ELSE m1
           m3  == IF out = "done" /\ msg.cmd_def = "CIPSTART"
                  THEN [m2 EXCEPT !.conn = conn_reused(@)]
                  ELSE IF out = "done" /\ msg.cmd_def = "CIPCLOSE"
                  THEN [m2 EXCEPT !.conn = conn_closed(@)]
                  ELSE m2
       IN  /\ Commit(m3)
           /\ gen' = IF out = "done" /\ msg.cmd_def = "CIPSTART" THEN gen + 1 ELSE gen
           /\ applied' = [seq |-> msg.seq, cmd_def |-> msg.cmd_def,
                          hgen |-> msg.hgen, vgen |-> msg.vgen,
                          qgen |-> msg.qgen, gen |-> gen, out |-> out]
           /\ IF msg.blocking # 0
              THEN Return(msg.owner, IF out = "done" THEN "gsmOK" ELSE "gsmERR")
              ELSE UNCHANGED <<pc, loc>>
           /\ timers' = IF out = "done" /\ msg.cmd_def = "CIPSTART"
                        THEN gsmi_conn_start_timeout(timers, gen + 1)
                        ELSE timers
    /\ UNCHANGED <<written, calls, last, cfg, polls, lk>>

\* The remote side closes the connection.
RemoteClose ==
    /\ conn.active
    /\ conn' = conn_closed(conn)
    /\ UNCHANGED <<heap, queue, submitted, applied, gen, faults, written, calls, last, pc, loc, cfg, timers, polls, lk>>

AppThreads == {"app1"}

Next ==
    \/ \E t \in AppThreads :
         \/ CloseCall(t) \/ CloseMsg(t) \/ CloseFlush(t) \/ ClosePut(t) \/ CloseMark(t)
         \/ SendCall(t) \/ SendtoCall(t) \/ SendFlush(t) \/ SendBuild(t) \/ SendPut(t)
         \/ SendDone(t) \/ StartCall(t)
    \/ WriteCb
    \/ Execute
    \/ RemoteClose

Spec == Init /\ [][Next]_vars

(***************************************************************************)
(* The same with two calls at most.                                        *)
(***************************************************************************)
MaxSendCalls == 2

InitSend ==
    /\ InitState
    /\ cfg = [mbox |-> MaxQueue, calls |-> MaxSendCalls, starts |-> MaxStarts]

SpecSend == InitSend /\ [][Next]_vars

(***************************************************************************)
(* One application context that opens and closes connections, with writes  *)
(* from the connection callback, the executor and the remote side.         *)
(***************************************************************************)
NextClose ==
    \/ \E t \in AppThreads :
         \/ CloseCall(t) \/ CloseMsg(t) \/ CloseFlush(t) \/ ClosePut(t) \/ CloseMark(t)
         \/ StartCall(t)
    \/ WriteCb
    \/ Execute
    \/ RemoteClose

SpecClose == Init /\ [][NextClose]_vars

(***************************************************************************)
(* Two application contexts closing the connection, with the executor and  *)
(* the remote side.                                                        *)
(***************************************************************************)
NextRace ==
    \/ \E t \in Threads :
         \/ CloseCall(t) \/ CloseMsg(t) \/ CloseFlush(t) \/ ClosePut(t) \/ CloseMark(t)
         \/ StartCall(t)
    \/ WriteCb
    \/ Execute
    \/ RemoteClose

SpecRace == Init /\ [][NextRace]_vars

(***************************************************************************)
(* One application context sending, and a context that calls               *)
(* gsm_conn_write without holding the core lock, with the executor.        *)
(***************************************************************************)
CbThreads == Threads \ AppThreads

NextOwn ==
    \/ \E t \in AppThreads :
         \/ SendCall(t) \/ SendFlush(t) \/ SendBuild(t) \/ SendPut(t) \/ SendDone(t)
    \/ \E t \in CbThreads : WriteSend(t) \/ WriteRest(t)
    \/ (\A t \in CbThreads : pc[t] = "idle") /\ WriteCb
    \/ Execute

SpecOwn == Init /\ [][NextOwn]_vars

(***************************************************************************)
(* The poll timer of the slot, with connections opened by the application, *)
(* closed by the remote side and by the application.                       *)
(***************************************************************************)
\* ts without its i-th element.
RemoveAt(ts, i) == SubSeq(ts, 1, i - 1) \o SubSeq(ts, i + 1, Len(ts))

\* One pending poll timer expires: conn_timeout_cb(conn) runs.
TimerFire ==
    \E i \in DOMAIN timers :
      LET r    == conn_timeout_cb(conn)
          rest == RemoveAt(timers, i)
      IN  /\ r.emit = 0 \/ polls.n < MaxPolls
          /\ timers' = IF r.rearm = 1 THEN gsm_timeout_add(rest, timers[i]) ELSE rest
          /\ polls' = [n |-> polls.n + r.emit, fired |-> polls.fired + 1,
                       chain |-> timers[i], gen |-> gen, active |-> conn.active,
                       emit |-> r.emit, rearm |-> r.rearm,
                       before |-> Len(timers), after |-> Len(rest) + r.rearm]
          /\ UNCHANGED <<conn, heap, queue, submitted, applied, gen, faults, written,
                         calls, last, pc, loc, cfg, lk>>

NextPoll ==
    \/ \E t \in AppThreads :
         \/ CloseCall(t) \/ CloseMsg(t) \/ CloseFlush(t) \/ ClosePut(t) \/ CloseMark(t)
         \/ StartCall(t)
    \/ Execute
    \/ RemoteClose
    \/ TimerFire

SpecPoll == Init /\ [][NextPoll]_vars

\* A timer added with gsm_timeout_add expires after its interval.
SpecPollFair == SpecPoll /\ WF_vars(TimerFire)

(***************************************************************************)
(* The lock discipline: an application context and the library's own       *)
(* context perform the lock-level events of their calls, interleaved.      *)
(* The application context enters a call without the lock; whether the     *)
(* library's context holds the lock while it runs a callback or a timeout  *)
(* is decided outside gsm_conn.c: both cases are explored.                 *)
(***************************************************************************)
\* How many times context c holds the core lock.
Held(c) == IF lk.owner = c THEN lk.depth ELSE 0

MaxDepth == 3

LockCall(c) ==
    /\ lk.op[c] = "none"
    /\ \E call \in (IF c = "app" THEN AppCalls ELSE CoreCalls),
          d \in (IF c = "app" THEN {0} ELSE {0, 1}) :
         /\ d = 1 => lk.owner = "none"
         /\ lk' = [lk EXCEPT !.op[c] = call.op, !.prog[c] = call.p.ev,
                             !.res[c] = call.p.res, !.d0[c] = d,
                             !.owner = IF d = 1 THEN c ELSE @,
                             !.depth = IF d = 1 THEN 1 ELSE @]
    /\ UNCHANGED <<conn, heap, queue, submitted, applied, gen, faults, written, calls,
                   last, pc, loc, cfg, timers, polls>>

LockStep(c) ==
    /\ lk.prog[c] # <<>>
    /\ LET e == Head(lk.prog[c])
       IN  /\ e.k = "lock" => lk.owner \in {"none", c} /\ lk.depth < MaxDepth
           /\ e.k = "unlock" => lk.owner = c
           /\ lk' = [lk EXCEPT !.prog[c] = Tail(@),
                               !.owner = IF e.k = "lock" THEN c
                                         ELSE IF e.k = "unlock" /\ lk.depth = 1 THEN "none"
                                         ELSE @,
                               !.depth = IF e.k = "lock" THEN @ + 1
                                         ELSE IF e.k = "unlock" THEN @ - 1
                                         ELSE @]
    /\ UNCHANGED <<conn, heap, queue, submitted, applied, gen, faults, written, calls,
                   last, pc, loc, cfg, timers, polls>>

\* The call returns; a caller that had taken the lock then releases it.
LockReturn(c) ==
    /\ lk.op[c] # "none"
    /\ lk.prog[c] = <<>>
    /\ lk' = [lk EXCEPT !.op[c] = "none", !.res[c] = "",
                        !.owner = IF lk.d0[c] = 1 /\ lk.owner = c /\ lk.depth = 1
                                  THEN "none" ELSE @,
                        !.depth = IF lk.d0[c] = 1 /\ lk.owner = c THEN @ - 1 ELSE @,
                        !.d0[c] = 0]
    /\ UNCHANGED <<conn, heap, queue, submitted, applied, gen, faults, written, calls,
                   last, pc, loc, cfg, timers, polls>>

NextLock == \E c \in Contexts : LockCall(c) \/ LockStep(c) \/ LockReturn(c)

SpecLock == Init /\ [][NextLock]_vars

(***************************************************************************)
(* A producer mailbox large enough for VAL_ID_MOD gsm_conn_start commands  *)
(* and one send, and the schedule in which the application queues          *)
(* VAL_ID_MOD starts and then makes one write before the executor runs,    *)
(* the remote side closing each connection before the next start is        *)
(* executed.  Every step is a step of Next; only the capacity of the       *)
(* mailbox, the number of calls and the schedule differ.                   *)
(***************************************************************************)
WrapQueue == VAL_ID_MOD + 1

InitWrap ==
    /\ InitState
    /\ cfg = [mbox |-> WrapQueue, calls |-> WrapQueue + MaxFaults, starts |-> VAL_ID_MOD]

WrapStart ==
    /\ last.op = "none"
    /\ StartCall("app1")

WrapWrite ==
    /\ last.op = "none"
    /\ Len(queue) = VAL_ID_MOD
    /\ calls < cfg.calls
    /\ Write({100}, gen)

WrapExecute ==
    /\ last.op = "write"
    /\ queue # <<>>
    /\ Head(queue).cmd_def = "CIPSTART" => ~conn.active
    /\ Execute

WrapRemoteClose ==
    /\ last.op = "write"
    /\ queue # <<>>
    /\ Head(queue).cmd_def = "CIPSTART"
    /\ RemoteClose

NextWrap == WrapStart \/ WrapWrite \/ WrapExecute \/ WrapRemoteClose

SpecWrap == InitWrap /\ [][NextWrap]_vars

(***************************************************************************)
(* Properties of gsm_conn_write (checked under SpecWrite).                 *)
(***************************************************************************)
\* The payloads of the send commands in msgs, concatenated in order.
RECURSIVE Payloads(_)
Payloads(msgs) ==
    IF msgs = <<>> THEN <<>>
    ELSE Cat(IF msgs[1].cmd_def = "CIPSEND" THEN msgs[1].bytes ELSE <<>>,
             Payloads(Tail(msgs)))

\* The commands the last gsm_conn_write call put in the producer queue.
LastQueued == SubSeq(submitted, last.q0 + 1, last.q1)
\* The buffers the last gsm_conn_write call allocated.
LastAllocated == (last.h0 + 1) .. Len(last.heap1)
\* No allocation failed and no dispatch was rejected during the last call.
LastNoFault == last.f1 = last.f0
\* The bytes the caller passed to the last call.
LastInput == Stream(written - last.btw, last.btw)

WroteLast == last.op = "write"

HeapSound(hp) == \A b \in 1 .. Len(hp) : hp[b].frees <= 1 /\ hp[b].late = 0

\* The case of C6: gsm_conn_write(conn, data, 0, 1) with no staged buffer.
C6_Case == WroteLast /\ last.btw = 0 /\ last.flush = 1 /\ last.pre.buff = 0

\* What C6 says the call did.
C6_Outcome ==
    /\ Cardinality(LastAllocated) = 1
    /\ \A b \in LastAllocated : last.heap1[b].bytes = <<>> /\ last.heap1[b].frees = 1
    /\ last.q1 = last.q0
    /\ last.post.buff = 0
    /\ last.ret = "gsmOK"
    /\ HeapSound(last.heap1)

\* C6 as stated: a zero-length write with flush on a connection with no staged
\* buffer allocates one buffer, copies nothing, queues nothing, frees the buffer
\* exactly once, leaves no buffer reference and returns gsmOK.
C6_AsStated == C6_Case => C6_Outcome

\* C6 amended: so it is when the allocation succeeds; when it fails nothing is
\* allocated, queued or freed, no buffer is referenced and the call still
\* returns gsmOK.  In both cases no buffer is freed twice or used after free.
C6_ZeroLengthFlush ==
    C6_Case =>
        /\ LastNoFault => C6_Outcome
        /\ ~LastNoFault => /\ LastAllocated = {}
                           /\ last.q1 = last.q0
                           /\ last.post.buff = 0
                           /\ last.ret = "gsmOK"
                           /\ HeapSound(last.heap1)

C6_Witness == C6_Case /\ LastNoFault /\ last.h0 > 0

\* C7: a write of exactly GSM_CFG_CONN_MAX_DATA_LEN bytes with flush = 0 and no
\* staged buffer, allocation and dispatch succeeding, queues exactly one send
\* command, of GSM_CFG_CONN_MAX_DATA_LEN bytes (the input) with fau set, and
\* leaves a staged buffer with zero bytes used.
C7_Case ==
    /\ WroteLast /\ last.btw = GSM_CFG_CONN_MAX_DATA_LEN /\ last.flush = 0
    /\ last.pre.buff = 0 /\ LastNoFault

C7_FullChunkWrite ==
    C7_Case =>
        /\ Len(LastQueued) = 1
        /\ LastQueued[1].cmd_def = "CIPSEND"
        /\ LastQueued[1].btw = GSM_CFG_CONN_MAX_DATA_LEN
        /\ LastQueued[1].bytes = LastInput
        /\ LastQueued[1].fau = 1
        /\ last.post.buff # 0
        /\ last.post.ptr = 0
        /\ last.ret = "gsmOK"

C7_Witness == C7_Case /\ written > GSM_CFG_CONN_MAX_DATA_LEN

\* The case of C8: n bytes, 0 < n < GSM_CFG_CONN_MAX_DATA_LEN, flush = 0, no
\* staged buffer.
C8_Case ==
    /\ WroteLast /\ last.flush = 0 /\ last.pre.buff = 0
    /\ 0 < last.btw /\ last.btw < GSM_CFG_CONN_MAX_DATA_LEN

C8_Outcome ==
    /\ last.q1 = last.q0
    /\ last.post.buff # 0
    /\ last.post.len = GSM_CFG_CONN_MAX_DATA_LEN
    /\ last.post.ptr = last.btw
    /\ last.heap1[last.post.buff].bytes = LastInput
    /\ last.avail = GSM_CFG_CONN_MAX_DATA_LEN - last.btw
    /\ (last.btw = 100 => last.avail = 1360)

\* C8 as stated: such a write queues no command, leaves a staged buffer of
\* capacity GSM_CFG_CONN_MAX_DATA_LEN with n bytes used and reports
\* GSM_CFG_CONN_MAX_DATA_LEN - n available (100 bytes give 1360).
C8_AsStated == C8_Case => C8_Outcome

\* C8 amended: so it is when the allocation of the staged buffer succeeds; when
\* it fails the call returns gsmERRMEM, stages nothing, queues nothing and does
\* not report an available capacity.
C8_SmallWriteStaged ==
    C8_Case =>
        /\ LastNoFault => C8_Outcome /\ last.ret = "gsmOK"
        /\ ~LastNoFault => /\ last.ret = "gsmERRMEM"
                           /\ last.q1 = last.q0
                           /\ last.post.buff = 0
                           /\ last.avail = -1

C8_Witness == C8_Case /\ LastNoFault /\ last.btw = 100 /\ last.avail = 1360

\* The case of C9: 1500 bytes with flush = 1 onto a staged buffer of capacity
\* 1460 holding 100 bytes.
C9_Case ==
    /\ WroteLast /\ last.btw = 1500 /\ last.flush = 1
    /\ last.pre.buff # 0 /\ last.pre.ptr = 100 /\ last.pre.len = 1460

\* The bytes of the last call's input carried by the commands it queued.
C9_InputSent == DataLen(Payloads(LastQueued)) - last.pre.ptr

C9_Outcome ==
    /\ Len(LastQueued) = 2
    /\ LastQueued[1].data = last.pre.buff
    /\ LastQueued[1].bytes = Cat(Stream(written - 1600, 100), TakeD(LastInput, 1360))
    /\ LastQueued[2].data \in LastAllocated
    /\ LastQueued[2].bytes = DropD(LastInput, 1360)
    /\ LastQueued[2].btw = 140
    /\ Cardinality(LastAllocated) = 1
    /\ C9_InputSent = 1500
    /\ last.post.buff = 0
    /\ last.ret = "gsmOK"

ClosesFor(g) ==
    {i \in DOMAIN submitted :
        submitted[i].cmd_def = "CIPCLOSE" /\ submitted[i].vgen = g}

\* Context t has returned from a gsm_conn_close that it issued right after its
\* previous gsm_conn_close, while the command queued by that previous call was
\* still in the producer queue and its connection still occupied the slot.
ClosedAgain(t) == pc[t] = "idle" /\ loc[t].op = "close" /\ loc[t].again

OutstandingCloses ==
    {i \in DOMAIN queue : queue[i].cmd_def = "CIPCLOSE" /\ queue[i].vgen = gen}

\* C3: under any interleaving of contexts calling gsm_conn_close on the same
\* connection, at most one close command for that connection is outstanding in
\* every reachable state.
C3_AtMostOneCloseOutstanding == Cardinality(OutstandingCloses) <= 1

\* C10: a gsm_conn_close on a connection that is in_closing or not active
\* returns gsmERR in the step that makes the check and changes nothing: no
\* command is queued, the staged buffer and the heap are untouched, the status
\* flags keep their values.
C10_RejectedCloseChangesNothing ==
    [][\A t \in Threads :
         (CloseCall(t) /\ (conn.in_closing \/ ~conn.active)) =>
            /\ pc'[t] = "idle"
            /\ loc'[t].res = "gsmERR"
            /\ loc'[t].idx = 0
            /\ UNCHANGED <<conn, heap, queue, submitted, faults>>]_vars

\* A close was rejected on a closing connection that has data staged, behind a
\* close command still in the queue.
C10_Witness ==
    /\ pc["app1"] = "idle"
    /\ loc["app1"].op = "close"
    /\ loc["app1"].res = "gsmERR"
    /\ loc["app1"].idx = 0
    /\ conn.in_closing
    /\ conn.buff # 0 /\ conn.ptr > 0
    /\ OutstandingCloses # {}

(***************************************************************************)
(* Properties of the executor's validation check.                          *)
(***************************************************************************)
\* The executor carried out a send or close command.
Carried == applied.out = "done" /\ applied.cmd_def \in {"CIPSEND", "CIPCLOSE"}

\* C4: a send or close command queued while the slot held one logical
\* connection is never carried out on another logical connection occupying
\* the slot when the command is executed, however many times the slot was
\* closed and reused in between; a command that carries the val_id read from
\* the connection now in the slot is not discarded.
C4_StaleCommandDiscarded ==
    /\ Carried => applied.qgen = applied.gen
    /\ (applied.cmd_def \in {"CIPSEND", "CIPCLOSE"} /\ applied.vgen = applied.gen)
          => applied.out # "discarded"

\* C5: a call made with a handle obtained for one logical connection never has
\* its command carried out on a newer logical connection in the same slot.
C5_StaleHandleHarmless == Carried => applied.hgen = applied.gen

(***************************************************************************)
(* Properties of the poll timer (checked under SpecPoll / SpecPollFair).   *)
(***************************************************************************)
\* A step in which a poll timer expired.
Fired == polls'.fired = polls.fired + 1

\* C11: each firing of the poll timer on an active connection emits exactly
\* one poll event and adds exactly one timer; a firing on a connection that is
\* not active emits nothing and adds nothing; no poll event is emitted while
\* the connection is not active; and whenever the connection is not active,
\* eventually it is active again or no poll timer is pending.
C11_PollChainTerminates ==
    /\ [][Fired =>
            IF conn.active
            THEN /\ polls'.n = polls.n + 1
                 /\ Len(timers') = Len(timers)
                 /\ polls'.emit = 1 /\ polls'.rearm = 1
            ELSE /\ polls'.n = polls.n
                 /\ Len(timers') = Len(timers) - 1
                 /\ polls'.emit = 0 /\ polls'.rearm = 0]_vars
    /\ [][~conn.active => polls'.n = polls.n]_vars
    /\ (~conn.active) ~> (conn.active \/ timers = <<>>)

\* The timer fired on the active connection, then on the connection no longer
\* active, and no timer is left.
C11_Witness ==
    /\ polls.n > 0
    /\ polls.fired > polls.n
    /\ ~polls.active /\ polls.emit = 0 /\ polls.rearm = 0
    /\ ~conn.active
    /\ timers = <<>>

\* C12: a poll timer armed for one logical connection never emits a poll event
\* and never re-arms once the slot holds another logical connection, and the
\* active connection never has two pending poll timers.
C12_NoPollAcrossRecycle ==
    /\ (polls.fired > 0 /\ (polls.emit = 1 \/ polls.rearm = 1)) => polls.chain = polls.gen
    /\ conn.active => Len(timers) <= 1

(***************************************************************************)
(* Properties of the lock discipline (checked under SpecLock).             *)
(***************************************************************************)
\* The event context c performs next.
NextEvent(c) == Head(lk.prog[c])
\* Context c is about to perform an event of kind k.
About(c, k) == lk.prog[c] # <<>> /\ NextEvent(c).k = k
\* The call of context c has performed all its events and is about to return.
Returning(c) == lk.op[c] # "none" /\ lk.prog[c] = <<>>

\* C13: every access to a field of the connection other than the slot number
\* is made while the accessing context holds the core lock.
C13_AccessUnderLock ==
    \A c \in Contexts :
        (About(c, "acc") /\ NextEvent(c).f # "num") => Held(c) > 0

\* C14: no operation submits a command to the producer mailbox, or waits on a
\* blocking dispatch, while it holds the core lock (a lock its caller took
\* before the call is not counted).
C14_NoSubmitUnderLock ==
    \A c \in Contexts : About(c, "submit") => Held(c) <= lk.d0[c]

\* C15: every operation returns holding the core lock as many times as it did
\* on entry, on every path, the error returns included.
C15_LockBalanced ==
    \A c \in Contexts : Returning(c) => Held(c) = lk.d0[c]

\* gsm_conn_close returns gsmERRMEM after its flush_buff freed a buffer whose
\* dispatch was rejected under the lock; the lock is not held.
C15_Witness ==
    /\ Returning("app")
    /\ lk.op["app"] = "gsm_conn_close"
    /\ lk.res["app"] = "gsmERRMEM"
    /\ Held("app") = 0
    /\ lk.owner = "core"

(***************************************************************************)
(* Properties of the ownership of write buffers.                           *)
(***************************************************************************)
\* The free-after-use send commands in the producer queue that carry buffer b.
QueuedWith(b) ==
    {i \in DOMAIN queue : queue[i].cmd_def = "CIPSEND" /\ queue[i].fau = 1 /\ queue[i].data = b}

\* The number of owners of buffer b: the connection's buff field, queued
\* free-after-use send commands, the allocator once it was freed.
Owners(b) ==
    (IF conn.buff = b THEN 1 ELSE 0) + Cardinality(QueuedWith(b))
    + (IF heap[b].frees > 0 THEN 1 ELSE 0)

\* C16: in every reachable state every write buffer has exactly one owner (the
\* connection's buff field, a queued free-after-use send command, or it is
\* freed), no buffer is freed twice and none is stored to after it was freed.
C16_OneOwner ==
    /\ \A b \in DOMAIN heap : Owners(b) = 1
    /\ HeapSound(heap)

(***************************************************************************)
(* Properties of the in_closing flag.                                      *)
(***************************************************************************)
\* The accepted non-blocking close commands queued while logical connection g
\* was in the slot.
AcceptedCloses(g) ==
    {i \in DOMAIN submitted : /\ submitted[i].cmd_def = "CIPCLOSE"
                              /\ submitted[i].blocking = 0
                              /\ submitted[i].qgen = g}

\* C17: in every reachable state, in_closing is set only on a connection that
\* is active and for which a non-blocking close was accepted while it was in
\* the slot: never on a closed connection, never on a newer occupant.
C17_ClosingOnlyWhileActive ==
    conn.in_closing => conn.active /\ AcceptedCloses(gen) # {}

(***************************************************************************)
(* Properties of the val_id carried by queued commands.                    *)
(***************************************************************************)
\* The val_id of logical connection g: 1 for the first, incremented at reuse.
ValIdOf(g) == g % VAL_ID_MOD

\* The send and close commands accepted so far.
SendOrClose == {i \in DOMAIN submitted : submitted[i].cmd_def \in {"CIPSEND", "CIPCLOSE"}}

\* C18 as stated: every send and close command carries the val_id the
\* connection had at the moment the command was submitted.
C18_AsStated ==
    \A i \in SendOrClose : submitted[i].val_id = ValIdOf(submitted[i].qgen)

\* C18: every send and close command carries the val_id the connection had
\* when the call read it under the lock, at or before the submission (the
\* slot can be reused in between, and the command then carries the val_id of
\* the connection the call was made for).
C18_ValIdAsRead ==
    /\ conn.val_id = ValIdOf(gen)
    /\ \A i \in SendOrClose :
         /\ submitted[i].val_id = ValIdOf(submitted[i].vgen)
         /\ submitted[i].vgen <= submitted[i].qgen

\* A send or close command was accepted after the slot was reused between
\* the read of val_id and the submission: it carries the old val_id.
C18_Witness ==
    \E i \in SendOrClose : /\ submitted[i].vgen < submitted[i].qgen
                           /\ submitted[i].val_id # ValIdOf(submitted[i].qgen)

C20_AsStated ==
    last.op = "write" /\ last.nomem => last.ret = "gsmERRMEM"

\* C20: whenever the allocation of the staged buffer fails in step 3, the
\* call returns gsmERRMEM if input remains, and gsmOK with 0 bytes available
\* if none remains.
C20_NoMemoryFailsIfInputRemains ==
    last.op = "write" /\ last.nomem
      => /\ last.post.buff = 0
         /\ IF last.rest # 0
            THEN last.ret = "gsmERRMEM"
            ELSE last.ret = "gsmOK" /\ last.avail = 0

\* The staged buffer was sent full in step 1, input remained and the
\* allocation of the new staged buffer failed: gsmERRMEM.
C20_Witness ==
    /\ last.op = "write" /\ last.nomem /\ last.rest # 0
    /\ last.pre.buff # 0
    /\ last.ret = "gsmERRMEM"

(***************************************************************************)
(* Properties of the chunk loop of gsm_conn_write (step 2).                *)
(***************************************************************************)
\* The last call returned from the chunk loop.
C21_Case == WroteLast /\ last.step = 2

\* The number of chunks the loop queued before the one that failed.
ChunksBefore == (last.in2 - last.rest) \div GSM_CFG_CONN_MAX_DATA_LEN

\* The commands the loop queued: the last ChunksBefore of the call's commands.
ChunkCmds == SubSeq(LastQueued, Len(LastQueued) - ChunksBefore + 1, Len(LastQueued))

\* The buffers allocated by the last call that no command in the queue carries.
NotQueued == {b \in LastAllocated : \A i \in DOMAIN queue : queue[i].data # b}

\* C21: when allocation or dispatch fails for the k-th chunk of the chunk
\* loop, the call returns gsmERRMEM at once: the chunk's buffer, if allocated,
\* is freed exactly once; the failed chunk and the input after it are neither
\* queued nor staged; the connection holds no staged buffer; the k-1 chunks
\* queued before are still in the queue, each a full chunk of the input in
\* order with fau set, its buffer not freed.
C21_ChunkFailureIsTerminal ==
    C21_Case =>
        /\ last.ret = "gsmERRMEM"
        /\ last.post.buff = 0 /\ conn.buff = 0
        /\ last.rest >= GSM_CFG_CONN_MAX_DATA_LEN
        /\ last.in2 - last.rest = ChunksBefore * GSM_CFG_CONN_MAX_DATA_LEN
        /\ Len(LastQueued) \in {ChunksBefore, ChunksBefore + 1}
        /\ Len(LastQueued) = ChunksBefore + 1 => last.pre.buff # 0
        /\ \A i \in DOMAIN ChunkCmds :
             /\ ChunkCmds[i].cmd_def = "CIPSEND" /\ ChunkCmds[i].fau = 1
             /\ ChunkCmds[i].btw = GSM_CFG_CONN_MAX_DATA_LEN
             /\ ChunkCmds[i].data \in LastAllocated
             /\ heap[ChunkCmds[i].data].frees = 0
        /\ Payloads(ChunkCmds)
             = Stream(written - last.in2, ChunksBefore * GSM_CFG_CONN_MAX_DATA_LEN)
        /\ SubSeq(queue, Len(queue) - ChunksBefore + 1, Len(queue)) = ChunkCmds
        /\ Cardinality(LastAllocated) \in {ChunksBefore, ChunksBefore + 1}
        /\ Cardinality(NotQueued) <= 1
        /\ \A b \in NotQueued : heap[b].frees = 1
        /\ last.f1 > last.f0 \/ Len(queue) >= cfg.mbox
        /\ HeapSound(heap)

\* The second chunk of a call was allocated and its dispatch failed, after
\* the first was queued.
C21_Witness ==
    /\ C21_Case /\ ChunksBefore = 1
    /\ Cardinality(LastAllocated) = 2
    /\ \E b \in LastAllocated : heap[b].frees = 1

(***************************************************************************)
(* Properties of the flush made by gsm_conn_close.                         *)
(***************************************************************************)
\* The close of context t went through flush_buff.
CloseFlushed(t) == loc[t].op = "close" /\ loc[t].fres # ""

\* The close command of context t was accepted in the producer queue.
CloseQueued(t) == CloseFlushed(t) /\ loc[t].idx # 0

\* The send command of the staged bytes is in the queue before the close
\* command whenever bytes were staged and their dispatch succeeded; otherwise
\* flush_buff queued nothing.
C22_FlushBeforeClose ==
    \A t \in Threads :
      CloseQueued(t) =>
        /\ submitted[loc[t].idx].cmd_def = "CIPCLOSE"
        /\ IF loc[t].staged # <<>> /\ loc[t].fres = "gsmOK"
           THEN /\ loc[t].fidx \in 1 .. (loc[t].idx - 1)
                /\ submitted[loc[t].fidx].cmd_def = "CIPSEND"
                /\ submitted[loc[t].fidx].fau = 1
                /\ submitted[loc[t].fidx].bytes = loc[t].staged
           ELSE loc[t].fidx = 0

\* The result of a close that went through flush_buff is that of the
\* submission of the close command alone.
C22_ResultOfPut ==
    \A t \in Threads :
      CloseFlushed(t) /\ pc[t] = "idle" =>
        IF loc[t].idx = 0 THEN loc[t].res = "gsmERRMEM"
        ELSE IF loc[t].blocking = 0 THEN loc[t].res = "gsmOK"
        ELSE loc[t].res \in {"gsmOK", "gsmERR"}

\* C22 as stated: for an accepted gsm_conn_close the send command of the
\* staged bytes is queued before the close command, a failed flush neither
\* prevents the close command from being queued nor changes the result, and
\* when the call returns the connection holds no staged buffer.
C22_AsStated ==
    /\ [](C22_FlushBeforeClose /\ C22_ResultOfPut)
    /\ [][\A t \in Threads :
            (pc[t] # "idle" /\ pc'[t] = "idle" /\ CloseQueued(t)')
              => conn'.buff = 0]_vars

\* C22: the same, except that on return the connection can hold a staged
\* buffer that another context created by gsm_conn_write after the flush;
\* the buffer that was staged at the flush is no longer referenced.
C22_CloseFlushesFirst ==
    /\ C22_FlushBeforeClose
    /\ C22_ResultOfPut
    /\ \A t \in Threads :
         CloseFlushed(t) => conn.buff = 0 \/ conn.buff > loc[t].fh

\* A non-blocking close returned gsmOK after the dispatch of its staged bytes
\* had failed.
C22_Witness ==
    \E t \in Threads :
      /\ CloseQueued(t) /\ pc[t] = "idle"
      /\ loc[t].blocking = 0 /\ loc[t].res = "gsmOK"
      /\ loc[t].staged # <<>> /\ loc[t].fres = "gsmERRMEM"

(***************************************************************************)
(* Properties of the val_id captured by gsm_conn_close.                    *)
(***************************************************************************)
\* C23: the val_id that gsm_conn_close puts in its close command is that of
\* the logical connection whose state passed the check at the start of the
\* call: the slot is not reused between the check and the capture, and the
\* close command is never applied to a later occupant of the slot.
C23_CloseTargetsCheckedConn ==
    /\ \A t \in Threads :
         loc[t].op = "close" /\ loc[t].msg.cmd_def = "CIPCLOSE"
           => /\ loc[t].msg.vgen = loc[t].g0
              /\ loc[t].msg.val_id = ValIdOf(loc[t].g0)
    /\ \A t \in Threads :
         (loc[t].op = "close" /\ loc[t].idx # 0 /\ applied.seq = loc[t].idx
            /\ applied.out = "done")
           => applied.gen = loc[t].g0

(***************************************************************************)
(* Properties of the result of gsm_conn_send.                              *)
(***************************************************************************)
\* The gsm_conn_send of context t has returned gsmOK.
SendOk(t) == loc[t].op = "send" /\ pc[t] = "idle" /\ loc[t].res = "gsmOK"

\* C24: gsm_conn_send returns gsmOK only if all input bytes were placed in
\* the producer queue: the bytes copied to the staged buffer by the send
\* command of the flush, the remainder by a direct send command after it; if
\* queuing the staged buffer fails the call does not return gsmOK.
C24_SendOkMeansAllQueued ==
    \A t \in Threads :
      SendOk(t) =>
        /\ loc[t].copied > 0 =>
             /\ loc[t].fres = "gsmOK" /\ loc[t].fidx # 0
             /\ submitted[loc[t].fidx].cmd_def = "CIPSEND"
             /\ submitted[loc[t].fidx].bytes = loc[t].staged
        /\ loc[t].inp # <<>> =>
             /\ loc[t].idx # 0
             /\ submitted[loc[t].idx].cmd_def = "CIPSEND"
             /\ submitted[loc[t].idx].bytes = loc[t].inp
             /\ loc[t].fidx < loc[t].idx

====
